---- MODULE Spec2Model ----
(***************************************************************************)
(* The JNI bridge of liblc3.cpp: decodeLC3 and encodeLC3 chunk a Java byte *)
(* array into fixed-size frames, run the LC3 codec on each frame against a *)
(* codec state they allocate themselves and return the accumulated output  *)
(* as a new Java byte array; rnNoise runs the RNNoise denoiser in place on *)
(* a Java float array against a caller-held state.                         *)
(*                                                                         *)
(* Native memory is one heap shared by all threads of the process.  The    *)
(* LC3 and RNNoise libraries are opaque: their state is one cell holding   *)
(* the inter-frame context and their output is a function of that context  *)
(* and of the frame they are given.                                        *)
(***************************************************************************)
EXTENDS Integers, Sequences, FiniteSets, TLC

\* ------------------------------------------------------------------ bounds
\* Largest number of whole frames in an input array.
MaxFrames == 2
\* Number of cells of native heap that can be allocated at the same time.
HeapSlots == 6
\* Lengths of the incomplete frame that may follow the whole frames.
TailLens == {0, 5}
\* The calling thread of a single-threaded application, and the threads of
\* one that calls from two threads.
Caller == {"t1"}
Threads == {"t1", "t2"}

\* --------------------------------------------------------------- constants
dtUs == 10000
srHz == 16000
output_byte_count == 20
encodedFrameSize == 20

\* lc3.h: number of PCM samples in a frame of dt_us microseconds at sr_hz.
lc3_frame_samples(dt_us, sr_hz) == (dt_us * sr_hz) \div 1000000

\* uint16_t sampleOfFrames / bytesOfFrames  (decodeLC3)
sampleOfFrames == lc3_frame_samples(dtUs, srHz) % 65536
bytesOfFrames == (sampleOfFrames * 2) % 65536
\* uint16_t samplesPerFrame / bytesPerFrame  (encodeLC3)
samplesPerFrame == lc3_frame_samples(dtUs, srHz) % 65536
bytesPerFrame == (samplesPerFrame * 2) % 65536

\* rnnoise: the number of floats rnnoise_process_frame reads and writes.
NativeFrameSize == 480

\* The null pointer; heap addresses are 1..HeapSlots.
NULL == 0
Addrs == 1..HeapSlots

\* A byte of malloc'ed memory nobody has written yet (outside the jbyte range).
Uninit == 999
\* What an unwritten byte can turn out to hold once it is copied to Java.
Junk == {0, 85}
\* First byte of a frame the codec refuses.
BadByte == 127

\* ------------------------------------------------------------- byte arrays
\* A byte array is kept as its runs: <<[v |-> 7, n |-> 3], [v |-> 0, n |-> 2]>>
\* is the five bytes 7 7 7 0 0.  Runs are never empty and neighbouring runs
\* differ in v, so two arrays are equal exactly when their runs are.
RECURSIVE Norm(_)
Norm(b) ==
    IF b = <<>> THEN <<>>
    ELSE IF b[1].n <= 0 THEN Norm(Tail(b))
    ELSE LET rest == Norm(Tail(b)) IN
         IF rest # <<>> /\ rest[1].v = b[1].v
         THEN <<[v |-> b[1].v, n |-> b[1].n + rest[1].n]>> \o Tail(rest)
         ELSE <<b[1]>> \o rest

\* The number of bytes of b.
RECURSIVE Size(_)
Size(b) == IF b = <<>> THEN 0 ELSE b[1].n + Size(Tail(b))

\* The first n bytes of b (all of b if it has fewer).
RECURSIVE Take(_, _)
Take(b, n) ==
    IF n <= 0 \/ b = <<>> THEN <<>>
    ELSE IF b[1].n <= n THEN <<b[1]>> \o Take(Tail(b), n - b[1].n)
    ELSE <<[v |-> b[1].v, n |-> n]>>

\* b without its first n bytes.
RECURSIVE Drop(_, _)
Drop(b, n) ==
    IF n <= 0 \/ b = <<>> THEN b
    ELSE IF b[1].n <= n THEN Drop(Tail(b), n - b[1].n)
    ELSE <<[v |-> b[1].v, n |-> b[1].n - n]>> \o Tail(b)

\* n bytes of value v.
Fill(n, v) == Norm(<<[v |-> v, n |-> n]>>)

\* a followed by b.
Cat(a, b) == Norm(a \o b)

\* The byte of b at index k, counted from 1.
At(b, k) == Drop(b, k - 1)[1].v

\* buf with src written at byte offset off (the part that fits in buf).
Overwrite(buf, off, src) ==
    LET room == Size(buf) - off
        m == IF Size(src) <= room THEN Size(src) ELSE room
    IN  IF m <= 0 THEN buf
        ELSE Norm(Take(buf, off) \o Take(src, m) \o Drop(buf, off + m))

\* The n bytes of buf that start at byte offset off (those that exist).
Slice(buf, off, n) == Take(Drop(buf, off), n)

\* Every unwritten byte of buf read as j.
Materialise(buf, j) ==
    Norm([k \in 1..Len(buf) |->
             [v |-> IF buf[k].v = Uninit THEN j ELSE buf[k].v, n |-> buf[k].n]])

\* ------------------------------------------------------ the opaque codecs
\* lc3_decoder_size / lc3_encoder_size: the state is modelled as one cell.
lc3_decoder_size == 1
lc3_encoder_size == 1

Digest(frame) ==
    IF frame = <<>> THEN 0 ELSE At(frame, 1) + 2 * At(frame, Size(frame))
\* The inter-frame context after a frame.
NextCtx(ctx, frame) == (3 * ctx + Digest(frame) + 1) % 7
\* lc3_decode / lc3_encode return -1 on a null handle or a frame they refuse.
CodecRejects(frame) == frame = <<>> \/ At(frame, 1) = BadByte
\* The bytes a successful lc3_decode / lc3_encode writes.
lc3_decode_out(ctx, frame) == Fill(bytesOfFrames, 1 + NextCtx(ctx, frame))
lc3_encode_out(ctx, frame) == Fill(encodedFrameSize, 8 + NextCtx(ctx, frame))

\* ------------------------------------------------------------- Java arrays
NullArray == [isNull |-> TRUE, bytes |-> <<>>]
JArray(b) == [isNull |-> FALSE, bytes |-> b]

\* Whole frames of an input: all accepted by the codec, or one refused.
RECURSIVE Frames(_, _, _)
Frames(k, bad, F) ==
    IF k = 0 THEN <<>>
    ELSE Cat(Frames(k - 1, bad, F),
             Fill(F, IF k = bad THEN BadByte ELSE 1 + (k % 2)))

\* The array a caller passes, from its shape <<k, bad, r>>: k whole frames of
\* F bytes, frame number bad refused by the codec (none if 0), and r more bytes.
Input(shape, F) == Cat(Frames(shape[1], shape[2], F), Fill(shape[3], 3))

\* The shapes of the arrays of an application with one calling thread, and
\* of one with two threads calling at the same time.
AllShapes ==
    { x \in (0..MaxFrames) \X (0..MaxFrames) \X TailLens : x[2] <= x[1] }
ConcShapes == { <<1, 0, 0>>, <<2, 2, 0>> }

\* --------------------------------------------------------------- the state
VARIABLES
    shapes,   \* the shapes of the arrays the application passes
    th,       \* per thread: position in the call and the call's locals
    heap,     \* native heap: address -> block
    rn,       \* the RNNoise state the caller holds
    crashed   \* the process died on an invalid memory access

vars == <<shapes, th, heap, rn, crashed>>

FreeBlock == [used |-> FALSE, owner |-> "none", bytes |-> <<>>]

Idle ==
    [pc |-> "idle", dir |-> "none", data |-> <<>>,
     outBuf |-> NULL, outArray |-> NULL, mem |-> NULL,
     i |-> 0, offset |-> 0, outSize |-> 0,
     result |-> NullArray, junk |-> 0, log |-> <<>>, oob |-> FALSE,
     frees |-> 0, orig |-> -1, prevTail |-> 0, input |-> <<>>, libLen |-> -1]

\* A process in which threads ts call with arrays of shapes sh.
Start(ts, sh) ==
    /\ shapes = sh
    /\ th = [t \in ts |-> Idle]
    /\ heap = [a \in Addrs |-> FreeBlock]
    /\ rn = [live |-> FALSE, ctx |-> 0]
    /\ crashed = FALSE

Init == Start(Caller, AllShapes)
InitConc == Start(Threads, ConcShapes)

\* ------------------------------------------------------------------ malloc
\* What malloc may return: NULL, or the address of an unused cell.  Which
\* unused cell it is makes no difference to the caller; the model takes the
\* lowest.
MallocChoices(h) ==
    {NULL} \cup
    { a \in Addrs : /\ ~h[a].used
                    /\ \A b \in Addrs : ~h[b].used => a <= b }

\* The heap after malloc(n) returned p to thread t.
Allocated(h, p, n, t) ==
    IF p = NULL THEN h
    ELSE [h EXCEPT ![p] = [used |-> TRUE, owner |-> t, bytes |-> Fill(n, Uninit)]]

\* The heap after free(p); free(NULL) does nothing.
Freed(h, p) ==
    IF p = NULL THEN h ELSE [h EXCEPT ![p] = FreeBlock]

Set(t, r) == th' = [th EXCEPT ![t] = r]

\* -------------------------------------------------------------- decodeLC3
\* lines 15-30: the call is entered with the caller's array.
decodeLC3(t) ==
    /\ ~crashed
    /\ th[t].pc = "idle"
    /\ \E x \in shapes :
           Set(t, [Idle EXCEPT !.pc = "d_outBuf", !.dir = "decode",
                               !.data = Input(x, output_byte_count),
                               !.prevTail = th[t].prevTail])
    /\ UNCHANGED <<shapes, heap, rn, crashed>>

\* line 34: outSize = (lc3Length / output_byte_count) * bytesOfFrames.
DecOutSize_roundUp(lc3Length) ==
    ((lc3Length + output_byte_count - 1) \div output_byte_count) * bytesOfFrames
DecOutSize(lc3Length) == (lc3Length \div output_byte_count) * bytesOfFrames

\* line 56: offset += bytesOfFrames.
DecNextOffset_inputStride(offset) == offset + output_byte_count
DecNextOffset(offset) == offset + bytesOfFrames

\* outBuf as one static buffer, the same for every call.
DecMallocOutBuf_static(t) ==
    /\ ~crashed
    /\ th[t].pc = "d_outBuf"
    /\ heap' = Allocated(heap, HeapSlots, bytesOfFrames, t)
    /\ Set(t, [th[t] EXCEPT
           !.pc = "d_outArray",
           !.outBuf = HeapSlots,
           !.outSize = DecOutSize(Size(th[t].data))])
    /\ UNCHANGED <<shapes, rn, crashed>>

\* lines 33-34: outBuf = malloc(bytesOfFrames); outSize.
DecMallocOutBuf(t) ==
    /\ ~crashed
    /\ th[t].pc = "d_outBuf"
    /\ \E p \in MallocChoices(heap) :
         /\ heap' = Allocated(heap, p, bytesOfFrames, t)
         /\ Set(t, [th[t] EXCEPT
                !.pc = "d_outArray",
                !.outBuf = p,
                !.outSize = DecOutSize(Size(th[t].data))])
    /\ UNCHANGED <<shapes, rn, crashed>>

\* line 38: outArray = malloc(outSize).
DecMallocOutArray(t) ==
    /\ ~crashed
    /\ th[t].pc = "d_outArray"
    /\ \E p \in MallocChoices(heap) :
         /\ heap' = Allocated(heap, p, th[t].outSize, t)
         /\ Set(t, [th[t] EXCEPT !.pc = "d_setup", !.outArray = p])
    /\ UNCHANGED <<shapes, rn, crashed>>

\* The loop condition of both frame loops: i <= length - frameSize.
LoopCond_partial(i, length, frameSize) == i < length
LoopCond(i, length, frameSize) == i <= length - frameSize

\* The thread's codec handle: the state lc3_setup_* placed in mem, or NULL.
Handle(t) == th[t].mem
HandleLive(t) ==
    /\ Handle(t) # NULL
    /\ heap[Handle(t)].used
    /\ heap[Handle(t)].owner = t

\* One entry of the call's record of frame operations.
FrameOp(t, ret, val) ==
    [i |-> th[t].i, off |-> th[t].offset, live |-> HandleLive(t), ret |-> ret,
     val |-> val]

\* lines 40-45: decMem = malloc(decodeSize); lc3_setup_decoder; offset = 0.
DecSetupDecoder(t) ==
    /\ ~crashed
    /\ th[t].pc = "d_setup"
    /\ \E p \in MallocChoices(heap) :
         /\ heap' = IF p = NULL THEN heap
                    ELSE [Allocated(heap, p, lc3_decoder_size, t)
                              EXCEPT ![p].bytes = Fill(1, 0)]
         /\ Set(t, [th[t] EXCEPT !.pc = "d_loop", !.mem = p, !.offset = 0, !.i = 0])
    /\ UNCHANGED <<shapes, rn, crashed>>

\* lines 48-52: the loop test holds; lc3_decode of the frame at lc3Bytes + i
\* into outBuf.  The return value is not looked at.
DecFrame(t) ==
    LET s == th[t]
        frame == Slice(s.data, s.i, output_byte_count)
        fails == Handle(t) = NULL \/ CodecRejects(frame)
        ctx == At(heap[s.mem].bytes, 1)
    IN  /\ ~crashed
        /\ s.pc = "d_loop"
        /\ LoopCond(s.i, Size(s.data), output_byte_count)
        /\ IF fails
           THEN /\ Set(t, [s EXCEPT !.pc = "d_copy",
                                    !.log = Append(@, FrameOp(t, -1, -1))])
                /\ UNCHANGED <<heap, crashed>>
           ELSE IF s.outBuf = NULL
           THEN /\ crashed' = TRUE
                /\ UNCHANGED <<th, heap>>
           ELSE /\ heap' = [heap EXCEPT
                      ![s.outBuf].bytes = Overwrite(@, 0, lc3_decode_out(ctx, frame)),
                      ![s.mem].bytes = Fill(1, NextCtx(ctx, frame))]
                /\ Set(t, [s EXCEPT !.pc = "d_copy",
                                    !.log = Append(@, FrameOp(t, 0,
                                                At(lc3_decode_out(ctx, frame), 1))),
                                    !.oob = @ \/ s.i + output_byte_count > Size(s.data)])
                /\ UNCHANGED crashed
        /\ UNCHANGED <<shapes, rn>>

\* lines 55-58 and the loop step: memcpy(outArray + offset, outBuf,
\* bytesOfFrames); offset += bytesOfFrames; memset(outBuf, 0, bytesOfFrames);
\* i += output_byte_count.
DecCopy(t) ==
    LET s == th[t] IN
    /\ ~crashed
    /\ s.pc = "d_copy"
    /\ IF s.outArray = NULL \/ s.outBuf = NULL
       THEN /\ crashed' = TRUE
            /\ UNCHANGED <<th, heap>>
       ELSE /\ heap' = [heap EXCEPT
                  ![s.outArray].bytes = Overwrite(@, s.offset, heap[s.outBuf].bytes),
                  ![s.outBuf].bytes = Fill(bytesOfFrames, 0)]
            /\ Set(t, [s EXCEPT
                   !.pc = "d_loop",
                   !.oob = @ \/ s.offset + bytesOfFrames > Size(heap[s.outArray].bytes),
                   !.offset = DecNextOffset(@),
                   !.i = @ + output_byte_count])
            /\ UNCHANGED crashed
    /\ UNCHANGED <<shapes, rn>>

\* The values the unwritten bytes of buf may be read as.
JunkChoices(buf) ==
    IF \E k \in 1..Len(buf) : buf[k].v = Uninit THEN Junk ELSE {0}

\* NewByteArray(size) and SetByteArrayRegion(result, 0, size, src) of thread t
\* moving to pc next: NewByteArray may return null, and SetByteArrayRegion on
\* a null array, like a copy of size > 0 from a null src, ends the process.
NewResult(t, size, src, next) ==
    LET s == th[t] IN
    \E ok \in BOOLEAN :
        IF ~ok \/ (size > 0 /\ src = NULL)
        THEN /\ crashed' = TRUE
             /\ UNCHANGED th
        ELSE LET buf == IF size = 0 THEN <<>> ELSE Slice(heap[src].bytes, 0, size) IN
             /\ \E j \in JunkChoices(buf) :
                    Set(t, [s EXCEPT !.pc = next, !.junk = j,
                                     !.oob = @ \/ size > Size(buf),
                                     !.result = JArray(Materialise(buf, j))])
             /\ UNCHANGED crashed

\* lines 48, 63-64: the loop test fails; the result array is made.
DecNewByteArray(t) ==
    /\ ~crashed
    /\ th[t].pc = "d_loop"
    /\ ~LoopCond(th[t].i, Size(th[t].data), output_byte_count)
    /\ NewResult(t, th[t].outSize, th[t].outArray, "d_cleanup")
    /\ UNCHANGED <<shapes, heap, rn>>

\* lines 66-71: ReleaseByteArrayElements(JNI_ABORT); free(decMem);
\* free(outArray); free(outBuf); outBuf = NULL; return resultArray.
DecCleanup(t) ==
    LET s == th[t] IN
    /\ ~crashed
    /\ s.pc = "d_cleanup"
    /\ heap' = Freed(Freed(Freed(heap, s.mem), s.outArray), s.outBuf)
    /\ Set(t, [s EXCEPT !.pc = "done", !.outBuf = NULL,
                        !.frees = @ + (IF s.mem = NULL THEN 0 ELSE 1)])
    /\ UNCHANGED <<shapes, rn, crashed>>

\* -------------------------------------------------------------- encodeLC3
\* lines 76-91: the call is entered with the caller's array.
encodeLC3(t) ==
    /\ ~crashed
    /\ th[t].pc = "idle"
    /\ \E x \in shapes :
           Set(t, [Idle EXCEPT !.pc = "e_out", !.dir = "encode",
                               !.data = Input(x, bytesPerFrame),
                               !.prevTail = th[t].prevTail])
    /\ UNCHANGED <<shapes, heap, rn, crashed>>

\* line 94: outputSize = (pcmLength / bytesPerFrame) * encodedFrameSize.
EncOutputSize_perSample(pcmLength) == (pcmLength \div samplesPerFrame) * encodedFrameSize
EncOutputSize(pcmLength) == (pcmLength \div bytesPerFrame) * encodedFrameSize

\* lines 94-97: outputSize; encodedData = malloc(outputSize).
EncMallocEncodedData(t) ==
    LET size == EncOutputSize(Size(th[t].data)) IN
    /\ ~crashed
    /\ th[t].pc = "e_out"
    /\ \E p \in MallocChoices(heap) :
         /\ heap' = Allocated(heap, p, size, t)
         /\ Set(t, [th[t] EXCEPT !.pc = "e_setup", !.outArray = p, !.outSize = size])
    /\ UNCHANGED <<shapes, rn, crashed>>

\* lines 100-104: encMem = malloc(encoderSize); lc3_setup_encoder; offset = 0.
EncSetupEncoder(t) ==
    /\ ~crashed
    /\ th[t].pc = "e_setup"
    /\ \E p \in MallocChoices(heap) :
         /\ heap' = IF p = NULL THEN heap
                    ELSE [Allocated(heap, p, lc3_encoder_size, t)
                              EXCEPT ![p].bytes = Fill(1, 0)]
         /\ Set(t, [th[t] EXCEPT !.pc = "e_loop", !.mem = p, !.offset = 0, !.i = 0])
    /\ UNCHANGED <<shapes, rn, crashed>>

\* lines 107-110: the loop test holds; lc3_encode of the frame at pcmBytes + i
\* straight into encodedData + offset; offset += encodedFrameSize;
\* i += bytesPerFrame.  The return value is not looked at.
EncFrame(t) ==
    LET s == th[t]
        frame == Slice(s.data, s.i, bytesPerFrame)
        fails == Handle(t) = NULL \/ CodecRejects(frame)
        ctx == At(heap[s.mem].bytes, 1)
    IN  /\ ~crashed
        /\ s.pc = "e_loop"
        /\ LoopCond(s.i, Size(s.data), bytesPerFrame)
        /\ IF fails
           THEN /\ Set(t, [s EXCEPT !.log = Append(@, FrameOp(t, -1, -1)),
                                    !.offset = @ + encodedFrameSize,
                                    !.i = @ + bytesPerFrame])
                /\ UNCHANGED <<heap, crashed>>
           ELSE IF s.outArray = NULL
           THEN /\ crashed' = TRUE
                /\ UNCHANGED <<th, heap>>
           ELSE /\ heap' = [heap EXCEPT
                      ![s.outArray].bytes =
                          Overwrite(@, s.offset, lc3_encode_out(ctx, frame)),
                      ![s.mem].bytes = Fill(1, NextCtx(ctx, frame))]
                /\ Set(t, [s EXCEPT
                       !.log = Append(@, FrameOp(t, 0,
                                          At(lc3_encode_out(ctx, frame), 1))),
                       !.oob = \/ @
                               \/ s.i + bytesPerFrame > Size(s.data)
                               \/ s.offset + encodedFrameSize > Size(heap[s.outArray].bytes),
                       !.offset = @ + encodedFrameSize,
                       !.i = @ + bytesPerFrame])
                /\ UNCHANGED crashed
        /\ UNCHANGED <<shapes, rn>>

\* lines 107, 114-115: the loop test fails; the result array is made.
EncNewByteArray(t) ==
    /\ ~crashed
    /\ th[t].pc = "e_loop"
    /\ ~LoopCond(th[t].i, Size(th[t].data), bytesPerFrame)
    /\ NewResult(t, th[t].outSize, th[t].outArray, "e_cleanup")
    /\ UNCHANGED <<shapes, heap, rn>>

\* lines 118-122: ReleaseByteArrayElements(JNI_ABORT); free(encMem);
\* free(encodedData); return resultArray.
EncCleanup(t) ==
    LET s == th[t] IN
    /\ ~crashed
    /\ s.pc = "e_cleanup"
    /\ heap' = Freed(Freed(heap, s.mem), s.outArray)
    /\ Set(t, [s EXCEPT !.pc = "done",
                        !.frees = @ + (IF s.mem = NULL THEN 0 ELSE 1)])
    /\ UNCHANGED <<shapes, rn, crashed>>

\* ----------------------------------------------------------------- caller
\* The frame size of the input of a call in direction dir.
InFrame(dir) == IF dir = "decode" THEN output_byte_count ELSE bytesPerFrame
\* The frame size of the output of a call in direction dir.
OutFrame(dir) == IF dir = "decode" THEN bytesOfFrames ELSE encodedFrameSize

\* The Java caller takes the returned array; the thread is free again.  The
\* library keeps nothing of the call; prevTail remembers, for the properties,
\* how many trailing bytes the call left unprocessed.
Return(t) ==
    /\ ~crashed
    /\ th[t].pc = "done"
    /\ Set(t, [Idle EXCEPT !.prevTail = Size(th[t].data) % InFrame(th[t].dir)])
    /\ UNCHANGED <<shapes, heap, rn, crashed>>

\* The Java caller decodes what encodeLC3 has just returned to it.
DecodeEncoded(t) ==
    /\ ~crashed
    /\ th[t].pc = "done"
    /\ th[t].dir = "encode"
    /\ th[t].orig = -1
    /\ ~th[t].result.isNull
    /\ Set(t, [Idle EXCEPT !.pc = "d_outBuf", !.dir = "decode",
                           !.data = th[t].result.bytes,
                           !.orig = Size(th[t].data),
                           !.prevTail = Size(th[t].data) % bytesPerFrame])
    /\ UNCHANGED <<shapes, heap, rn, crashed>>

\* ---------------------------------------------------------------- rnNoise
\* The lengths of the float arrays the caller passes to rnNoise.
FrameLens == {NativeFrameSize - 1, NativeFrameSize, NativeFrameSize + 1}

\* rnnoise_process_frame(st, in, in) on an array of n floats: the library
\* reads and writes NativeFrameSize floats at the pointer it is given.
rnnoise_process_frame(ctx, frame) ==
    Overwrite(frame, 0, Fill(NativeFrameSize, 2 + ctx))

\* lines 140-143: createRNNoiseState.
createRNNoiseState(t) ==
    /\ ~crashed
    /\ th[t].pc = "idle"
    /\ ~rn.live
    /\ rn' = [live |-> TRUE, ctx |-> 0]
    /\ UNCHANGED <<shapes, th, heap, crashed>>

\* lines 126-138: rnNoise(st, input): GetFloatArrayElements,
\* rnnoise_process_frame in place, ReleaseFloatArrayElements(mode 0), return
\* input.  The length of input is never read.
rnNoise(t) ==
    /\ ~crashed
    /\ th[t].pc = "idle"
    /\ rn.live
    /\ \E n \in FrameLens :
         LET frame == Fill(n, 1) IN
         Set(t, [th[t] EXCEPT !.pc = "rn_done",
                              !.dir = "denoise",
                              !.data = frame,
                              !.input = rnnoise_process_frame(rn.ctx, frame),
                              !.libLen = n,
                              !.oob = n < NativeFrameSize])
    /\ rn' = [rn EXCEPT !.ctx = (@ + 1) % 2]
    /\ UNCHANGED <<shapes, heap, crashed>>

\* The Java caller takes the array rnNoise returned.
RnReturn(t) ==
    /\ ~crashed
    /\ th[t].pc = "rn_done"
    /\ Set(t, [Idle EXCEPT !.prevTail = th[t].prevTail])
    /\ UNCHANGED <<shapes, heap, rn, crashed>>

\* lines 145-148: destroyRNNoiseState.
destroyRNNoiseState(t) ==
    /\ ~crashed
    /\ th[t].pc = "idle"
    /\ rn.live
    /\ rn' = [rn EXCEPT !.live = FALSE]
    /\ UNCHANGED <<shapes, th, heap, crashed>>

\* ------------------------------------------------------------------- specs
Next ==
    \E t \in Caller :
        \/ decodeLC3(t)
        \/ DecMallocOutBuf(t)
        \/ DecMallocOutArray(t)
        \/ DecSetupDecoder(t)
        \/ DecFrame(t)
        \/ DecCopy(t)
        \/ DecNewByteArray(t)
        \/ DecCleanup(t)
        \/ encodeLC3(t)
        \/ EncMallocEncodedData(t)
        \/ EncSetupEncoder(t)
        \/ EncFrame(t)
        \/ EncNewByteArray(t)
        \/ EncCleanup(t)
        \/ Return(t)
        \/ DecodeEncoded(t)
        \/ createRNNoiseState(t)
        \/ rnNoise(t)
        \/ RnReturn(t)
        \/ destroyRNNoiseState(t)

\* The steps of the decodeLC3 and encodeLC3 calls alone.
NextConc ==
    \E t \in Threads :
        \/ decodeLC3(t)
        \/ DecMallocOutBuf(t)
        \/ DecMallocOutArray(t)
        \/ DecSetupDecoder(t)
        \/ DecFrame(t)
        \/ DecCopy(t)
        \/ DecNewByteArray(t)
        \/ DecCleanup(t)
        \/ encodeLC3(t)
        \/ EncMallocEncodedData(t)
        \/ EncSetupEncoder(t)
        \/ EncFrame(t)
        \/ EncNewByteArray(t)
        \/ EncCleanup(t)
        \/ Return(t)

\* One thread calling, with arrays of every shape.
Spec == Init /\ [][Next]_vars
\* Two threads calling decodeLC3 and encodeLC3 at the same time.
SpecConc == InitConc /\ [][NextConc]_vars

\* ------------------------------------------------- a call running alone
\* The bytes decodeLC3's loop puts in outArray from input offset i on, with
\* the decoder context ctx, a decoder that is live or NULL, and outBuf
\* holding scratch.
RECURSIVE DecodeFrom(_, _, _, _, _)
DecodeFrom(data, i, ctx, live, scratch) ==
    IF ~LoopCond(i, Size(data), output_byte_count) THEN <<>>
    ELSE LET frame == Slice(data, i, output_byte_count)
             ok == live /\ ~CodecRejects(frame)
         IN  Cat(IF ok THEN lc3_decode_out(ctx, frame) ELSE scratch,
                 DecodeFrom(data, i + output_byte_count,
                            IF ok THEN NextCtx(ctx, frame) ELSE ctx,
                            live, Fill(bytesOfFrames, 0)))

\* The bytes encodeLC3's loop puts in encodedData from input offset i on.
RECURSIVE EncodeFrom(_, _, _, _)
EncodeFrom(data, i, ctx, live) ==
    IF ~LoopCond(i, Size(data), bytesPerFrame) THEN <<>>
    ELSE LET frame == Slice(data, i, bytesPerFrame)
             ok == live /\ ~CodecRejects(frame)
         IN  Cat(IF ok THEN lc3_encode_out(ctx, frame)
                       ELSE Fill(encodedFrameSize, Uninit),
                 EncodeFrom(data, i + bytesPerFrame,
                            IF ok THEN NextCtx(ctx, frame) ELSE ctx, live))

\* The array a call in direction dir returns for data when it is the only
\* call of the process, its codec state was allocated (live) or not, and
\* unwritten memory reads as j.
RunAlone(dir, data, live, j) ==
    Materialise(IF dir = "decode"
                THEN DecodeFrom(data, 0, 0, live, Fill(bytesOfFrames, Uninit))
                ELSE EncodeFrom(data, 0, 0, live), j)

\* The whole input frames of data: data without its incomplete last frame.
WholeFrames(dir, data) ==
    Slice(data, 0, (Size(data) \div InFrame(dir)) * InFrame(dir))

\* -------------------------------------------------------------- properties
\* Thread t is in, or has just returned from, a decodeLC3 or encodeLC3 call.
InCodecCall(t) == th[t].dir \in {"decode", "encode"}
\* The call of thread t has made its result array.
HasResult(t) == th[t].pc \in {"d_cleanup", "e_cleanup", "done"}
\* The number of whole input frames of the call of thread t.
FrameCount(t) == Size(th[t].data) \div InFrame(th[t].dir)

\* C1: a decodeLC3 or encodeLC3 call on an array of length L returns a
\* non-null array of exactly floor(L / F) * O bytes, a multiple of O, and of
\* length zero when L < F (F, O: the input and output frame sizes).
C1_OutputLength ==
    \A t \in DOMAIN th :
        (InCodecCall(t) /\ th[t].pc = "done") =>
            /\ ~th[t].result.isNull
            /\ Size(th[t].result.bytes) = FrameCount(t) * OutFrame(th[t].dir)
            /\ Size(th[t].result.bytes) % OutFrame(th[t].dir) = 0
            /\ (Size(th[t].data) < InFrame(th[t].dir) => th[t].result.bytes = <<>>)

\* A decode of whole frames and a tail has returned a non-empty array.
C1_Witness ==
    \E t \in DOMAIN th :
        /\ th[t].pc = "done"
        /\ th[t].dir = "decode"
        /\ Size(th[t].data) > output_byte_count
        /\ Size(th[t].data) % output_byte_count # 0
        /\ Size(th[t].result.bytes) > 0

\* C2: if the codec call of frame i fails, the call ends in a failure: frame
\* i is the last frame processed and no array is returned.
C2_FrameFailureIsFatal ==
    \A t \in DOMAIN th :
        InCodecCall(t) =>
            \A j \in 1..Len(th[t].log) :
                th[t].log[j].ret # 0 =>
                    /\ j = Len(th[t].log)
                    /\ th[t].result.isNull

\* An allocation of the call of thread t has failed.
AllocFailed(t) ==
    \/ /\ th[t].pc \in {"d_loop", "d_copy", "d_cleanup", "done", "e_loop", "e_cleanup"}
       /\ th[t].mem = NULL
    \/ /\ th[t].pc \in {"d_setup", "d_loop", "d_copy", "d_cleanup", "done",
                        "e_setup", "e_loop", "e_cleanup"}
       /\ th[t].outArray = NULL
       /\ th[t].outSize > 0
    \/ /\ th[t].pc \in {"d_outArray", "d_setup", "d_loop", "d_copy", "d_cleanup"}
       /\ th[t].outBuf = NULL

\* C3: after a failed allocation of the codec state, the scratch buffer or
\* the output buffer, the frame loop does not run and no array with frames
\* in it is returned.
C3_AllocFailureIsFatal ==
    \A t \in DOMAIN th :
        (InCodecCall(t) /\ AllocFailed(t)) =>
            /\ th[t].log = <<>>
            /\ th[t].result.isNull \/ th[t].result.bytes = <<>>

\* C4: the codec handle is live at every frame operation of a call, and a
\* call that has returned has released it exactly once and holds it no more.
C4_HandleLifecycle ==
    \A t \in DOMAIN th :
        InCodecCall(t) =>
            /\ \A j \in 1..Len(th[t].log) : th[t].log[j].live
            /\ th[t].pc = "done" => (th[t].frees = 1 /\ ~HandleLive(t))

\* C5: the j-th frame operation of a call reads the input at (j-1) * F and
\* its output lies at (j-1) * O: in the output buffer once the frame is
\* stored, and in the returned array; a frame operation begins only when
\* the frames before it are stored.
C5_FrameOrder ==
    \A t \in DOMAIN th :
        InCodecCall(t) =>
          /\ th[t].pc \in {"d_loop", "e_loop"} =>
                 /\ th[t].i = Len(th[t].log) * InFrame(th[t].dir)
                 /\ th[t].offset = Len(th[t].log) * OutFrame(th[t].dir)
          /\ \A j \in 1..Len(th[t].log) :
                LET O == OutFrame(th[t].dir)
                    e == th[t].log[j]
                IN  /\ e.i = (j - 1) * InFrame(th[t].dir)
                    /\ e.off = (j - 1) * O
                    /\ (/\ e.ret = 0
                        /\ th[t].pc \in {"d_loop", "d_copy", "e_loop"}
                        /\ th[t].outArray # NULL
                        /\ j * O <= th[t].offset) =>
                           Slice(heap[th[t].outArray].bytes, (j - 1) * O, O)
                               = Fill(O, e.val)
                    /\ (e.ret = 0 /\ HasResult(t)) =>
                           Slice(th[t].result.bytes, (j - 1) * O, O) = Fill(O, e.val)

\* A call has returned after two successful frame operations.
C5_Witness ==
    \E t \in DOMAIN th :
        /\ th[t].pc = "done"
        /\ Len(th[t].log) >= 2
        /\ \A j \in 1..Len(th[t].log) : th[t].log[j].ret = 0

\* C6: only bytes of whole frames are passed to the codec, and the call
\* returns the array that a call on the whole frames alone returns, whatever
\* the calls before it left unprocessed.
C6_TailDropped ==
    \A t \in DOMAIN th :
        InCodecCall(t) =>
            /\ \A j \in 1..Len(th[t].log) :
                   th[t].log[j].i + InFrame(th[t].dir)
                       <= FrameCount(t) * InFrame(th[t].dir)
            /\ th[t].pc = "done" =>
                   /\ ~th[t].result.isNull
                   /\ th[t].result.bytes =
                          RunAlone(th[t].dir, WholeFrames(th[t].dir, th[t].data),
                                   th[t].mem # NULL, th[t].junk)

\* A call on whole frames and a tail has returned, on a thread whose
\* previous call had left a tail unprocessed too.
C6_Witness ==
    \E t \in DOMAIN th :
        /\ th[t].pc = "done"
        /\ InCodecCall(t)
        /\ Size(th[t].data) % InFrame(th[t].dir) # 0
        /\ Len(th[t].log) >= 1
        /\ th[t].prevTail > 0

\* C7: rnNoise on an array whose length is not the denoiser's frame size
\* does not call the library and leaves the array as it was.
C7_WrongLengthRejected ==
    \A t \in DOMAIN th :
        (th[t].pc = "rn_done" /\ Size(th[t].data) # NativeFrameSize) =>
            /\ th[t].libLen = -1
            /\ th[t].input = th[t].data

\* C8: decoding what encodeLC3 returned for k * bytesPerFrame bytes returns
\* k * bytesPerFrame bytes.
C8_RoundTripLength ==
    \A t \in DOMAIN th :
        (/\ th[t].pc = "done"
         /\ th[t].dir = "decode"
         /\ th[t].orig >= 0
         /\ th[t].orig % bytesPerFrame = 0) =>
            /\ ~th[t].result.isNull
            /\ Size(th[t].result.bytes) = th[t].orig

\* The decode of an encoded array of at least one whole frame has returned.
C8_Witness ==
    \E t \in DOMAIN th :
        /\ th[t].pc = "done"
        /\ th[t].dir = "decode"
        /\ th[t].orig >= bytesPerFrame
        /\ th[t].orig % bytesPerFrame = 0

\* The native memory the call of thread t holds.
Pointers(t) ==
    IF th[t].pc \in {"idle", "done", "rn_done"} THEN {}
    ELSE {th[t].outBuf, th[t].outArray, th[t].mem} \ {NULL}

\* C9: with two calls running at the same time, every block a call holds is
\* allocated and its own, no block is held by both, and each call returns the
\* array it returns when it runs alone.
C9_NoSharedState ==
    \A t \in DOMAIN th :
        /\ \A p \in Pointers(t) : heap[p].used /\ heap[p].owner = t
        /\ \A u \in DOMAIN th \ {t} : Pointers(t) \cap Pointers(u) = {}
        /\ (InCodecCall(t) /\ th[t].pc = "done") =>
               th[t].result.bytes =
                   RunAlone(th[t].dir, th[t].data, th[t].mem # NULL, th[t].junk)

\* One call has returned while the other is in the middle of its frame loop,
\* both holding a live codec state of their own during their frames.
C9_Witness ==
    \E t \in DOMAIN th : \E u \in DOMAIN th \ {t} :
        /\ th[t].pc = "done"
        /\ Len(th[t].log) >= 1
        /\ th[t].log[1].live
        /\ th[u].pc \in {"d_copy", "e_loop"}
        /\ Len(th[u].log) >= 1
        /\ th[u].log[1].live

\* C10: the frame loop and the output allocation agree: every frame
\* operation reads inside the input and writes inside the output buffer, the
\* loop runs floor(L / F) times and leaves offset at the allocated size.
C10_LoopMatchesAllocation ==
    \A t \in DOMAIN th :
        InCodecCall(t) =>
            LET F == InFrame(th[t].dir)
                O == OutFrame(th[t].dir)
            IN  /\ ~th[t].oob
                /\ \A j \in 1..Len(th[t].log) :
                       /\ th[t].log[j].i + F <= Size(th[t].data)
                       /\ th[t].log[j].off + O <= th[t].outSize
                /\ Len(th[t].log) <= FrameCount(t)
                /\ (th[t].pc \in {"d_loop", "d_copy", "e_loop"} /\ th[t].outArray # NULL)
                       => Size(heap[th[t].outArray].bytes) = th[t].outSize
                /\ (\/ HasResult(t)
                    \/ /\ th[t].pc \in {"d_loop", "e_loop"}
                       /\ ~LoopCond(th[t].i, Size(th[t].data), F)) =>
                       /\ Len(th[t].log) = FrameCount(t)
                       /\ th[t].offset = th[t].outSize

\* An encode of whole frames and a tail has left its loop with the output
\* buffer full.
C10_Witness ==
    \E t \in DOMAIN th :
        /\ th[t].pc = "e_cleanup"
        /\ Size(th[t].data) % bytesPerFrame # 0
        /\ Len(th[t].log) >= 1
        /\ th[t].offset = Len(th[t].log) * encodedFrameSize
====
